---- MODULE Spec2Model ----
(***************************************************************************)
(* A model of src/LuaUtils.cpp: the read-only table metatable              *)
(* (pi_lua_table_ro), math.hash_random (l_hash_random), the restricted     *)
(* standard library (pi_lua_open_standard_base), the protected call        *)
(* (pi_lua_protected_call) and the script loader (pi_lua_dofile,           *)
(* pi_lua_dofile_recursive, pi_load_lua).                                  *)
(*                                                                         *)
(* A Lua value that may be nil is modelled as a sequence: NIL is <<>> and  *)
(* a present value v is <<v>>.                                             *)
(***************************************************************************)
EXTENDS Integers, Sequences, FiniteSets, TLC

VARIABLES
    \* pi_lua_table_ro
    tbl,        \* raw contents of the table handed to pi_lua_table_ro
    mt,         \* its metatable: NIL, or <<the record pi_lua_table_ro builds>>
    roOut,      \* the last script operation on the table and its outcome
    \* l_hash_random
    hashOf,     \* lookup3_hashlittle2, a fixed function of the bytes hashed
    hrOut,      \* the last call of math.hash_random and its outcome
    \* pi_lua_open_standard_base
    compat,     \* the LUA_COMPAT_* entries the Lua runtime was built with
    globals,    \* the global table: name -> NIL or <<value>>
    mathlib,    \* the math table: name -> NIL or <<value>>
    basePc,     \* position in pi_lua_open_standard_base
    probe,      \* the last global or math entry a script looked up
    \* the loader and the protected call
    host,       \* "running", "terminated" (Error() was called), "crashed"
    CurrentDirectory, \* the Lua global of that name: NIL or <<dir>>
    stack,      \* the C/Lua call stack, innermost frame last
    malformed,  \* the script files whose text does not compile
    diag,       \* what the current top-level call wrote to stderr
    fatalMsg,   \* the message handed to Error(), NIL while none
    execLog,    \* script bodies run in the current top-level call
    treeDone,   \* the pi_lua_dofile_recursive calls completed in it
    loadCalls,  \* pi_load_lua calls made in the current top-level call
    lastScript, \* the last script body that ended, and how
    lastLoad,   \* the last pi_load_lua call and its outcome
    lastOp      \* the last top-level call of the host and whether it returned

roVars   == <<tbl, mt, roOut>>
hashVars == <<hashOf, hrOut>>
baseVars == <<compat, globals, mathlib, basePc, probe>>
loadVars == <<host, CurrentDirectory, stack, malformed, diag, fatalMsg,
              execLog, treeDone, loadCalls, lastScript, lastLoad, lastOp>>
vars     == <<roVars, hashVars, baseVars, loadVars>>

NIL == <<>>
Val(v) == <<v>>

(***************************************************************************)
(* pi_lua_table_ro                                                         *)
(***************************************************************************)
\* Bounds of the table model: keys key1..keyN, values 1..MaxVal.
MaxKey == 2
MaxVal == 2

Keys   == 1..MaxKey
Values == {NIL} \cup {Val(v) : v \in 1..MaxVal}

\* The metatable lines 14-23 build: __index is the table itself (the value at
\* stack index -3 when line 16 runs), __newindex is _ro_table_error and
\* __metatable is false.
RoMetatable ==
    [index |-> Val("self"), newindex |-> Val("_ro_table_error"),
     metatable |-> Val(FALSE)]

\* The metatable a script's own setmetatable(t, {}) installs: no fields.
EmptyMetatable == [index |-> NIL, newindex |-> NIL, metatable |-> NIL]

\* _ro_table_error: luaL_error with this message; it never returns normally.
RoTableError == "Attempt to modify read-only table"

\* Lua's t[k] = v as the script sees it (lua_settable): a key that is present
\* in the table is assigned raw; only for an absent key is the metatable's
\* __newindex consulted, and a function there is called instead of the store.
NewIndexFires(t, m, k) ==
    /\ t[k] = NIL
    /\ m # NIL
    /\ m[1].newindex # NIL

\* Lua's t[k] as the script sees it (lua_gettable): the raw value, and for an
\* absent key the __index table's value, which here is the table itself.
ScriptIndex(t, m, k) ==
    IF t[k] # NIL THEN t[k]
    ELSE IF m # NIL /\ m[1].index = Val("self") THEN t[k] ELSE NIL

\* What is recorded of a script operation: the operation, its key and value,
\* the error it raised (NIL: none), the table before it, and whether the
\* table carried pi_lua_table_ro's metatable when it ran.
RoRecord(op, k, v, raised) ==
    [op |-> op, key |-> k, val |-> v, raised |-> raised, pre |-> tbl,
     ro |-> (mt = Val(RoMetatable))]

\* pi_lua_table_ro(l): sets the metatable built in lines 14-23 on the table
\* at the top of the stack (line 24).
TableRO ==
    /\ mt' = Val(RoMetatable)
    /\ roOut' = RoRecord("table_ro", 0, NIL, NIL)
    /\ UNCHANGED tbl
    /\ UNCHANGED <<hashVars, baseVars, loadVars>>

\* A script assigns t[k] = v.
ScriptAssign(k, v) ==
    /\ IF NewIndexFires(tbl, mt, k)
       THEN /\ tbl' = tbl
            /\ roOut' = RoRecord("assign", k, v, Val(RoTableError))
       ELSE /\ tbl' = [tbl EXCEPT ![k] = v]
            /\ roOut' = RoRecord("assign", k, v, NIL)
    /\ UNCHANGED mt
    /\ UNCHANGED <<hashVars, baseVars, loadVars>>

\* A script reads t[k].
ScriptRead(k) ==
    /\ roOut' = RoRecord("read", k, ScriptIndex(tbl, mt, k), NIL)
    /\ UNCHANGED <<tbl, mt>>
    /\ UNCHANGED <<hashVars, baseVars, loadVars>>

\* A script calls setmetatable(t, {}): with a __metatable field in the
\* metatable (lines 21-23; false is a value, not nil) the base library refuses.
ScriptSetMetatable ==
    /\ IF mt # NIL /\ mt[1].metatable # NIL
       THEN /\ roOut' = RoRecord("setmetatable", 0, NIL,
                                 Val("cannot change a protected metatable"))
            /\ mt' = mt
       ELSE /\ roOut' = RoRecord("setmetatable", 0, NIL, NIL)
            /\ mt' = Val(EmptyMetatable)
    /\ UNCHANGED tbl
    /\ UNCHANGED <<hashVars, baseVars, loadVars>>

RoInit ==
    /\ tbl \in [Keys -> Values]
    /\ mt = NIL
    /\ roOut = RoRecord("none", 0, NIL, NIL)

RoNext ==
    \/ TableRO
    \/ \E k \in Keys, v \in Values : ScriptAssign(k, v)
    \/ \E k \in Keys : ScriptRead(k)
    \/ ScriptSetMetatable

(***************************************************************************)
(* l_hash_random                                                           *)
(***************************************************************************)
\* A 32-bit unsigned value is a pair <<high 16 bits, low 16 bits>>.
Half == 65536

\* The two constants of the LUA_TNIL case, lines 36 and 37: 0xBF42B131 and
\* 0x2A40F7F2.
NilHashA_hi == 48962
NilHashA_lo == 45361
NilHashB_hi == 10816
NilHashB_lo == 63474

\* Bounds of the calls modelled: at most MaxArgs arguments, range arguments
\* in -MaxRange..MaxRange.
MaxArgs  == 4
MaxRange == 2

StrSeeds == {"a"}
NumSeeds == {1}
\* The first argument: nil, a string, a number, a NaN number, or a value of
\* another type (a table).
Seeds ==
    {[t |-> "nil"], [t |-> "nan"], [t |-> "table"]}
        \cup {[t |-> "string", s |-> s] : s \in StrSeeds}
        \cup {[t |-> "number", n |-> n] : n \in NumSeeds}

\* Sample outputs of lookup3_hashlittle2 (hashA, hashB): all bits set, and a
\* mixed pair.
HashPairs ==
    { << <<Half - 1, Half - 1>>, <<Half - 1, Half - 1>> >>,
      << <<NilHashB_hi, NilHashB_lo>>, <<NilHashA_hi, NilHashA_lo>> >> }

\* hashA >> 5 and hashB >> 6 (line 57), on the pair representation.
ShiftRight(h, bits) == h[1] * (Half \div (2 ^ bits)) + (h[2] \div (2 ^ bits))

\* The double x of lines 57-58 is (hi * 2^26 + lo) / 2^53 with
\* hi = hashA >> 5 < 2^27 and lo = hashB >> 6 < 2^26; it is kept as <<hi, lo>>.
Fraction(hashA, hashB) == <<ShiftRight(hashA, 5), ShiftRight(hashB, 6)>>

\* int(x * k) of line 76, for k >= 0: the integer part of
\* (hi * 2^26 + lo) * k / 2^53.
FloorMul(x, k) == (x[1] * k + ((x[2] * k) \div (2 ^ 26))) \div (2 ^ 27)

\* int(x * k) for any k: the conversion to int truncates toward zero.
TruncMul(x, k) == IF k >= 0 THEN FloorMul(x, k) ELSE 0 - FloorMul(x, 0 - k)

\* SeedHash with the two constants of the nil case exchanged.
SeedHashSwapped(seed) ==
    CASE seed.t = "nil" ->
            [err |-> NIL, a |-> <<NilHashB_hi, NilHashB_lo>>,
                          b |-> <<NilHashA_hi, NilHashA_lo>>]
      [] seed.t = "string" ->
            [err |-> NIL, a |-> hashOf.str[seed.s][1], b |-> hashOf.str[seed.s][2]]
      [] seed.t = "number" ->
            [err |-> NIL, a |-> hashOf.num[seed.n][1], b |-> hashOf.num[seed.n][2]]
      [] seed.t = "nan" ->
            [err |-> NIL, a |-> hashOf.nan[1], b |-> hashOf.nan[2]]
      [] OTHER ->
            [err |-> Val("expected a string or a number for argument 1"),
             a |-> <<0, 0>>, b |-> <<0, 0>>]

\* The switch of lines 33-54: the hash pair for the first argument, or the
\* error it raises.
SeedHash(seed) ==
    CASE seed.t = "nil" ->
            [err |-> NIL, a |-> <<NilHashA_hi, NilHashA_lo>>,
                          b |-> <<NilHashB_hi, NilHashB_lo>>]
      [] seed.t = "string" ->
            [err |-> NIL, a |-> hashOf.str[seed.s][1], b |-> hashOf.str[seed.s][2]]
      [] seed.t = "number" ->
            [err |-> NIL, a |-> hashOf.num[seed.n][1], b |-> hashOf.num[seed.n][2]]
      [] seed.t = "nan" ->
            [err |-> NIL, a |-> hashOf.nan[1], b |-> hashOf.nan[2]]
      [] OTHER ->
            [err |-> Val("expected a string or a number for argument 1"),
             a |-> <<0, 0>>, b |-> <<0, 0>>]

\* What a call leaves: its arguments and either an error, a fraction
\* (kind "number", frac = <<hi, lo>>) or an integer.
HrResult(args, kind, err, frac, int) ==
    [args |-> args, kind |-> kind, err |-> err, frac |-> frac, int |-> int]

\* l_hash_random with the arguments args (args[1] the seed, the others the
\* integers lua_tointeger gives), in a build with or without assert().
HashRandom(args, asserts) ==
    LET numargs == Len(args) IN
    IF numargs = 0
    THEN \* luaL_checkany(L, 1), line 32
         HrResult(args, "error", Val("bad argument #1 (value expected)"),
                  NIL, NIL)
    ELSE IF args[1].t = "nan" /\ asserts
    THEN \* assert(!is_nan(n)), line 49
         HrResult(args, "abort", NIL, NIL, NIL)
    ELSE LET h == SeedHash(args[1])
             x == Fraction(h.a, h.b)
         IN  IF h.err # NIL
             THEN HrResult(args, "error", h.err, NIL, NIL)
             ELSE IF numargs = 1
             THEN HrResult(args, "number", NIL, Val(x), NIL)
             ELSE IF numargs = 3
             THEN HrResult(args, "integer", NIL, NIL,
                    Val(args[2] + TruncMul(x, args[3] - args[2] + 1)))
             ELSE IF numargs = 2
             THEN HrResult(args, "integer", NIL, NIL,
                    Val(1 + TruncMul(x, args[2] - 1 + 1)))
             ELSE HrResult(args, "error",
                    Val("unknown argument to hash_random"), NIL, NIL)

\* The argument lists modelled.
RangeArgs == (0 - MaxRange)..MaxRange
ArgLists ==
    {<<>>}
      \cup {<<s>> : s \in Seeds}
      \cup {<<s, n>> : s \in Seeds, n \in RangeArgs}
      \cup {<<s, m, n>> : s \in Seeds, m \in RangeArgs, n \in RangeArgs}
      \cup {<<s, m, n>> \o [i \in 1..(MaxArgs - 3) |-> 0] : s \in Seeds,
                              m \in {0}, n \in {0}}

\* A script calls math.hash_random(...).
CallHashRandom(args, asserts) ==
    /\ hrOut' = HashRandom(args, asserts)
    /\ UNCHANGED hashOf
    /\ UNCHANGED <<roVars, baseVars, loadVars>>

HashInit ==
    /\ hashOf \in [str : [StrSeeds -> HashPairs], num : [NumSeeds -> HashPairs],
                   nan : HashPairs]
    /\ hrOut = HrResult(<<>>, "none", NIL, NIL, NIL)

HashNext ==
    \E args \in ArgLists, asserts \in BOOLEAN : CallHashRandom(args, asserts)

(***************************************************************************)
(* pi_lua_open_standard_base                                               *)
(***************************************************************************)
\* What the Lua 5.2 library openers named in STANDARD_LIBS define. The base
\* library puts these functions into the global table.
BaseFunctions ==
    {"assert", "collectgarbage", "dofile", "error", "getmetatable", "ipairs",
     "loadfile", "load", "next", "pairs", "pcall", "print", "rawequal",
     "rawlen", "rawget", "rawset", "select", "setmetatable", "tonumber",
     "tostring", "type", "xpcall", "_VERSION"}

\* The math library's fields.
MathFunctions ==
    {"abs", "acos", "asin", "atan2", "atan", "ceil", "cosh", "cos", "deg",
     "exp", "floor", "fmod", "frexp", "ldexp", "log", "max", "min", "modf",
     "pow", "rad", "random", "randomseed", "sinh", "sin", "sqrt", "tanh",
     "tan", "pi", "huge"}

\* Entries a runtime built with compatibility options adds: the global
\* loadstring (base), the global unpack (table) and math.log10.
CompatOptions == {"loadstring", "unpack", "log10"}

\* Every library table the runtime can open, by its global name.
LibraryNames ==
    {"_G", "coroutine", "table", "string", "bit32", "math", "debug",
     "package", "io", "os"}

GlobalNames ==
    BaseFunctions \cup LibraryNames \cup {"loadstring", "unpack", "require"}
MathNames == MathFunctions \cup {"log10", "deg2rad", "hash_random"}

\* The globals, other than its own table, that opening a library defines.
OpenerGlobals(lib, opts) ==
    CASE lib = "_G" -> BaseFunctions \cup (opts \cap {"loadstring"})
      [] lib = "table" -> opts \cap {"unpack"}
      [] lib = "package" -> {"require"}
      [] OTHER -> {}

\* The math table luaopen_math builds.
OpenedMath(opts) ==
    [n \in MathNames |->
        IF n \in MathFunctions \cup (opts \cap {"log10"})
        THEN Val("math." \o n) ELSE NIL]

\* STANDARD_LIBS with the os library added.
StandardLibsWithOs ==
    <<"_G", "coroutine", "table", "string", "bit32", "math", "debug", "os">>

\* STANDARD_LIBS, lines 81-90, in order.
StandardLibs ==
    <<"_G", "coroutine", "table", "string", "bit32", "math", "debug">>

\* luaL_requiref(L, lib->name, lib->func, 1): runs the opener and stores the
\* library table in the global of that name.
RequireGlobal(g, lib, opts) ==
    [n \in GlobalNames |->
        IF n = lib THEN Val("lib:" \o lib)
        ELSE IF n \in OpenerGlobals(lib, opts) THEN Val("fn:" \o n)
        ELSE g[n]]

\* One iteration of the loop of lines 116-119.
OpenNextLib ==
    /\ basePc \in 1..Len(StandardLibs)
    /\ globals' = RequireGlobal(globals, StandardLibs[basePc], compat)
    /\ mathlib' = IF StandardLibs[basePc] = "math"
                  THEN OpenedMath(compat) ELSE mathlib
    /\ basePc' = basePc + 1
    /\ UNCHANGED <<compat, probe>>
    /\ UNCHANGED <<roVars, hashVars, loadVars>>

\* The names lines 121-124 set to nil.
RemovedGlobals == {"dofile", "loadfile"}

\* Lines 121-124.
RemoveLoaders ==
    /\ basePc = Len(StandardLibs) + 1
    /\ globals' = [n \in GlobalNames |->
                      IF n \in RemovedGlobals THEN NIL ELSE globals[n]]
    /\ basePc' = basePc + 1
    /\ UNCHANGED <<compat, mathlib, probe>>
    /\ UNCHANGED <<roVars, hashVars, loadVars>>

\* Lines 127-140 on the math table m: random and randomseed removed,
\* deg2rad set to the value of rad, hash_random set to l_hash_random.
AdjustedMath(m) ==
    LET m1 == [m EXCEPT !["random"] = NIL]
        m2 == [m1 EXCEPT !["randomseed"] = NIL]
        m3 == [m2 EXCEPT !["deg2rad"] = m2["rad"]]
    IN  [m3 EXCEPT !["hash_random"] = Val("l_hash_random")]

\* Lines 127-140; line 127 reads the global "math".
AdjustMath ==
    /\ basePc = Len(StandardLibs) + 2
    /\ globals["math"] # NIL
    /\ mathlib' = AdjustedMath(mathlib)
    /\ basePc' = basePc + 1
    /\ UNCHANGED <<compat, globals, probe>>
    /\ UNCHANGED <<roVars, hashVars, loadVars>>

BaseDone == basePc = Len(StandardLibs) + 3

\* A script, once the environment is built, looks up a global or a field of
\* math.
ScriptLookup(scope, name) ==
    /\ BaseDone
    /\ probe' = [scope |-> scope, name |-> name,
                 value |-> IF scope = "math" THEN mathlib[name]
                           ELSE globals[name]]
    /\ UNCHANGED <<compat, globals, mathlib, basePc>>
    /\ UNCHANGED <<roVars, hashVars, loadVars>>

BaseInit ==
    /\ compat \in SUBSET CompatOptions
    /\ globals = [n \in GlobalNames |-> NIL]
    /\ mathlib = [n \in MathNames |-> NIL]
    /\ basePc = 1
    /\ probe = [scope |-> "none", name |-> "", value |-> NIL]

BaseNext ==
    \/ OpenNextLib
    \/ RemoveLoaders
    \/ AdjustMath
    \/ \E n \in GlobalNames : ScriptLookup("global", n)
    \/ \E n \in MathNames : ScriptLookup("math", n)

(***************************************************************************)
(* The file service (FileSystem::gameDataFiles), as the loader uses it     *)
(***************************************************************************)
\* The game data tree modelled. The root directory is the empty path.
\*   a.lua  .lua  notes.txt  sub/  sub/c.lua  sub/d.LUA
\* and "pipe", which exists and is neither a file nor a directory.
FileKind ==
    [p \in {"", "a.lua", ".lua", "notes.txt", "sub", "sub/c.lua", "sub/d.LUA",
            "pipe"} |->
        CASE p \in {"", "sub"} -> "dir"
          [] p = "pipe" -> "special"
          [] OTHER -> "file"]

\* A path no entry has.
MissingPath == "nope.lua"

Paths == DOMAIN FileKind \cup {MissingPath}

\* FileSystem::gameDataFiles.Lookup(path): the kind of the entry, "none"
\* when there is none.
Lookup(p) == IF p \in DOMAIN FileKind THEN FileKind[p] ELSE "none"

\* FileEnumerator(gameDataFiles, basepath, IncludeDirs): the files and
\* directories directly in basepath, in the enumerator's order.
Enumerate(basepath) ==
    CASE basepath = "" -> <<"a.lua", ".lua", "notes.txt", "sub">>
      [] basepath = "sub" -> <<"sub/c.lua", "sub/d.LUA">>
      [] OTHER -> <<>>

\* The files of the tree under directory d (d's own and its subdirectories').
FilesUnder(d) ==
    CASE d = "" -> {p \in DOMAIN FileKind : FileKind[p] = "file"}
      [] d = "sub" -> {"sub/c.lua", "sub/d.LUA"}
      [] OTHER -> {}

\* FileInfo::GetDir(): the path up to its last '/', empty when it has none.
LastSlash(p) ==
    LET at == {i \in 1..Len(p) : SubSeq(p, i, i) = "/"}
    IN  IF at = {} THEN 0 ELSE CHOOSE i \in at : \A j \in at : j <= i
GetDir(p) == IF LastSlash(p) = 0 THEN "" ELSE SubSeq(p, 1, LastSlash(p) - 1)

\* The files whose text may fail to compile.
ScriptFiles == {"a.lua", "sub/c.lua"}

(***************************************************************************)
(* The loader: pi_lua_dofile, pi_lua_dofile_recursive, pi_load_lua, and    *)
(* pi_lua_protected_call                                                   *)
(***************************************************************************)
\* Bounds: pi_load_lua calls nested at most MaxNest deep, and at most
\* MaxCalls of them in one top-level call of the host.
MaxNest  == 2
MaxCalls == 2

\* The suffix test of lines 260 and 286.
HasLuaSuffix(fpath) ==
    Len(fpath) > 4 /\ SubSeq(fpath, Len(fpath) - 3, Len(fpath)) = ".lua"

\* The directory pushed as CurrentDirectory: lines 235 and 262.
DirOrDot(dir) == IF dir = "" THEN "." ELSE dir

\* luaL_optstring(l, -1, ""), line 281, on the global CurrentDirectory.
OptString(v, default) == IF v = NIL THEN default ELSE v[1]

\* Restored without the else branch of line 298: nil is always pushed.
RestoredAlwaysNil(currentDir) == NIL

\* Lines 296-299: the value pushed back into CurrentDirectory.
Restored(currentDir) == IF currentDir = "" THEN NIL ELSE Val(currentDir)

\* A frame of the call stack. fn is "recursive" (pi_lua_dofile_recursive at
\* entry idx of basepath path), "load_lua" (pi_load_lua waiting for the load
\* it dispatched) or "script" (a Lua body running under lua_pcall). ctx says
\* who runs a script: "path" (pi_lua_dofile by path), "tree"
\* (pi_lua_dofile_recursive) or "pcall" (pi_lua_protected_call). tree is the
\* identity of the outermost pi_lua_dofile_recursive call a frame belongs to
\* and isRoot marks that call's own frame. currentDir is pi_load_lua's local;
\* outer is the value CurrentDirectory had when pi_load_lua was entered and
\* logAt the number of bodies run before it.
Frame(fn, path, idx, tree, isRoot, currentDir, outer, logAt, ctx) ==
    [fn |-> fn, path |-> path, idx |-> idx, tree |-> tree, isRoot |-> isRoot,
     currentDir |-> currentDir, outer |-> outer, logAt |-> logAt, ctx |-> ctx]

RecursiveFrame(basepath, tree, isRoot) ==
    Frame("recursive", basepath, 1, tree, isRoot, "", NIL, 0, "")
ScriptFrame(path, tree, ctx) ==
    Frame("script", path, 0, tree, FALSE, "", NIL, 0, ctx)
LoadLuaFrame(path, currentDir, outer) ==
    Frame("load_lua", path, 0, 0, FALSE, currentDir, outer, Len(execLog), "")

Top == stack[Len(stack)]
Pop == SubSeq(stack, 1, Len(stack) - 1)
Nesting == Cardinality({i \in DOMAIN stack : stack[i].fn = "load_lua"})

NoScript == [path |-> "", ctx |-> "", outcome |-> "none"]
NoLoad   == [path |-> "", kind |-> "", result |-> "none", outer |-> NIL,
             after |-> NIL, nesting |-> 0, dispatched |-> "none", ran |-> 0]

\* An Error() that reports the message and returns.
ErrorReturns(who, what) ==
    /\ host' = "running"
    /\ fatalMsg' = Val(<<who, what>>)

\* The host's fatal-error path, Error(): it does not return (line 168).
Error(who, what) ==
    /\ host' = "terminated"
    /\ fatalMsg' = Val(<<who, what>>)

\* The host is between top-level calls.
Idle == host = "running" /\ stack = <<>>

\* What every top-level call starts from: the records of the previous one
\* are dropped.
FreshCall(op, arg) ==
    /\ lastOp' = [op |-> op, arg |-> arg, returned |-> FALSE]
    /\ diag' = {}
    /\ treeDone' = {}
    /\ lastLoad' = NoLoad

\* pi_lua_dofile(l, code), lines 193-197, entered for file path: a text that
\* does not compile goes to pi_lua_panic (line 195); otherwise the body
\* starts under lua_pcall with pi_lua_panic as its message handler.
\* base is the stack the body's frame is pushed on.
StartBody(base, path, tree, ctx, log) ==
    IF path \in malformed
    THEN /\ Error("pi_lua_panic", path)
         /\ lastScript' = [path |-> path, ctx |-> ctx, outcome |-> "syntax"]
         /\ stack' = base
         /\ execLog' = log
    ELSE /\ stack' = Append(base, ScriptFrame(path, tree, ctx))
         /\ execLog' = Append(log, [tree |-> tree, path |-> path,
                                    cd |-> CurrentDirectory'])
         /\ lastScript' = NoScript
         /\ UNCHANGED <<host, fatalMsg>>

\* The host calls pi_lua_dofile_recursive(l, basepath).
HostLoadTree(basepath) ==
    /\ Idle
    /\ Lookup(basepath) = "dir"
    /\ FreshCall("load_tree", basepath)
    /\ stack' = <<RecursiveFrame(basepath, 1, TRUE)>>
    /\ loadCalls' = 0
    /\ execLog' = <<>>
    /\ lastScript' = NoScript
    /\ UNCHANGED <<host, fatalMsg, CurrentDirectory, malformed>>
    /\ UNCHANGED <<roVars, hashVars, baseVars>>

\* pi_lua_dofile_recursive, lines 252-257: the current entry is a directory
\* and the function calls itself on it.
TreeEnterDir ==
    /\ host = "running" /\ stack # <<>> /\ Top.fn = "recursive"
    /\ Top.idx <= Len(Enumerate(Top.path))
    /\ LET fpath == Enumerate(Top.path)[Top.idx] IN
       /\ Lookup(fpath) = "dir"
       /\ stack' = Append(Append(Pop, [Top EXCEPT !.idx = Top.idx + 1]),
                          RecursiveFrame(fpath, Top.tree, FALSE))
    /\ UNCHANGED <<host, fatalMsg, CurrentDirectory, malformed, diag, execLog,
                   treeDone, loadCalls, lastScript, lastLoad, lastOp>>
    /\ UNCHANGED <<roVars, hashVars, baseVars>>

\* Lines 258-267: the current entry is a file with the suffix; the global is
\* set to the directory being walked and the file is read and run.
TreeRunFile ==
    /\ host = "running" /\ stack # <<>> /\ Top.fn = "recursive"
    /\ Top.idx <= Len(Enumerate(Top.path))
    /\ LET fpath == Enumerate(Top.path)[Top.idx] IN
       /\ Lookup(fpath) # "dir"
       /\ HasLuaSuffix(fpath)
       /\ CurrentDirectory' = Val(DirOrDot(Top.path))
       /\ StartBody(Append(Pop, [Top EXCEPT !.idx = Top.idx + 1]), fpath,
                    Top.tree, "tree", execLog)
    /\ UNCHANGED <<malformed, diag, treeDone, loadCalls, lastLoad, lastOp>>
    /\ UNCHANGED <<roVars, hashVars, baseVars>>

\* Lines 258-260: the current entry is a file without the suffix; nothing is
\* done with it.
TreeSkipFile ==
    /\ host = "running" /\ stack # <<>> /\ Top.fn = "recursive"
    /\ Top.idx <= Len(Enumerate(Top.path))
    /\ LET fpath == Enumerate(Top.path)[Top.idx] IN
       /\ Lookup(fpath) # "dir"
       /\ ~HasLuaSuffix(fpath)
       /\ stack' = Append(Pop, [Top EXCEPT !.idx = Top.idx + 1])
    /\ UNCHANGED <<host, fatalMsg, CurrentDirectory, malformed, diag, execLog,
                   treeDone, loadCalls, lastScript, lastLoad, lastOp>>
    /\ UNCHANGED <<roVars, hashVars, baseVars>>

\* Line 252, files.Finished(): pi_lua_dofile_recursive returns.
TreeReturn ==
    /\ host = "running" /\ stack # <<>> /\ Top.fn = "recursive"
    /\ Top.idx > Len(Enumerate(Top.path))
    /\ stack' = Pop
    /\ treeDone' = IF Top.isRoot
                   THEN treeDone \cup {[tree |-> Top.tree, dir |-> Top.path]}
                   ELSE treeDone
    /\ lastOp' = IF Pop = <<>> THEN [lastOp EXCEPT !.returned = TRUE]
                 ELSE lastOp
    /\ UNCHANGED <<host, fatalMsg, CurrentDirectory, malformed, diag, execLog,
                   loadCalls, lastScript, lastLoad>>
    /\ UNCHANGED <<roVars, hashVars, baseVars>>

\* The host calls pi_lua_dofile(l, path) on a path the file service can
\* read: lines 228-239.
HostLoadScript(path) ==
    /\ Idle
    /\ Lookup(path) = "file"
    /\ FreshCall("load_script", path)
    /\ CurrentDirectory' = Val(DirOrDot(GetDir(path)))
    /\ StartBody(<<>>, path, 0, "path", <<>>)
    /\ loadCalls' = 0
    /\ UNCHANGED malformed
    /\ UNCHANGED <<roVars, hashVars, baseVars>>

\* The host calls pi_lua_dofile(l, path) on a path ReadFile gives nothing
\* for: line 230 reports it and line 234 dereferences the null pointer,
\* which is undefined. The builds either stop there, or go on with a
\* directory string read from nowhere and stop at the next dereference,
\* in line 239.
HostLoadScriptUnreadable(path, garbage) ==
    /\ Idle
    /\ Lookup(path) # "file"
    /\ lastOp' = [op |-> "load_script", arg |-> path, returned |-> FALSE]
    /\ diag' = {<<"could not read Lua file", path>>}
    /\ treeDone' = {}
    /\ lastLoad' = NoLoad
    /\ host' = "crashed"
    /\ CurrentDirectory' \in {CurrentDirectory, Val(garbage)}
    /\ UNCHANGED <<stack, fatalMsg, malformed, execLog, loadCalls, lastScript>>
    /\ UNCHANGED <<roVars, hashVars, baseVars>>

\* The host calls pi_lua_protected_call on a Lua function: lines 176-179.
HostProtectedCall ==
    /\ Idle
    /\ FreshCall("protected_call", "")
    /\ stack' = <<ScriptFrame("", 0, "pcall")>>
    /\ loadCalls' = 0
    /\ execLog' = <<>>
    /\ lastScript' = NoScript
    /\ UNCHANGED <<host, fatalMsg, CurrentDirectory, malformed>>
    /\ UNCHANGED <<roVars, hashVars, baseVars>>

\* What the caller of a script body does once lua_pcall has returned
\* normally or with a status it reports: pi_lua_dofile by path clears the
\* global (lines 242-243), the others leave it.
AfterBody(ctx) ==
    /\ CurrentDirectory' = IF ctx = "path" THEN NIL ELSE CurrentDirectory
    /\ stack' = Pop
    /\ lastOp' = IF Pop = <<>> THEN [lastOp EXCEPT !.returned = TRUE]
                 ELSE lastOp

\* A script body, or the function under pi_lua_protected_call, returns.
ScriptReturn ==
    /\ host = "running" /\ stack # <<>> /\ Top.fn = "script"
    /\ lastScript' = [path |-> Top.path, ctx |-> Top.ctx, outcome |-> "ok"]
    /\ AfterBody(Top.ctx)
    /\ UNCHANGED <<host, fatalMsg, malformed, diag, execLog, treeDone, loadCalls,
                   lastLoad>>
    /\ UNCHANGED <<roVars, hashVars, baseVars>>

\* What a runtime error raised in a body leads to. Under pi_lua_dofile the
\* message handler of lua_pcall is pi_lua_panic (lines 193, 197), which
\* calls Error() (line 167). Under pi_lua_protected_call the handler is
\* l_handle_error, lua_pcall returns nonzero and line 184 calls Error().
OnRuntimeError(frame) ==
    /\ IF frame.ctx = "pcall"
       THEN Error("pi_lua_protected_call", "error_handler message")
       ELSE Error("pi_lua_panic", frame.path)
    /\ UNCHANGED <<diag, CurrentDirectory, stack, lastOp>>

\* A script body, or the function under pi_lua_protected_call, raises a
\* runtime error (LUA_ERRRUN).
ScriptRaise ==
    /\ host = "running" /\ stack # <<>> /\ Top.fn = "script"
    /\ lastScript' = [path |-> Top.path, ctx |-> Top.ctx,
                      outcome |-> "ERRRUN"]
    /\ OnRuntimeError(Top)
    /\ UNCHANGED <<malformed, execLog, treeDone, loadCalls, lastLoad>>
    /\ UNCHANGED <<roVars, hashVars, baseVars>>

\* The diagnostics of lines 206-213.
FaultDiagnostic(status) ==
    IF status = "ERRMEM" THEN "OutOfMemory" ELSE "HandlerFault"

\* lua_pcall ends a body with LUA_ERRMEM (no handler is run for it) or
\* LUA_ERRERR (the handler itself failed). pi_lua_dofile reports it (lines
\* 198-217) and returns; pi_lua_protected_call calls Error() (line 184).
ScriptFault(status) ==
    /\ host = "running" /\ stack # <<>> /\ Top.fn = "script"
    /\ lastScript' = [path |-> Top.path, ctx |-> Top.ctx, outcome |-> status]
    /\ IF Top.ctx = "pcall"
       THEN /\ Error("pi_lua_protected_call", status)
            /\ UNCHANGED <<diag, CurrentDirectory, stack, lastOp>>
       ELSE /\ diag' = diag \cup {<<FaultDiagnostic(status), Top.path>>}
            /\ AfterBody(Top.ctx)
            /\ UNCHANGED <<host, fatalMsg>>
    /\ UNCHANGED <<malformed, execLog, treeDone, loadCalls, lastLoad>>
    /\ UNCHANGED <<roVars, hashVars, baseVars>>

\* lua_pcall ends a body with another status (LUA_ERRGCMM): line 214 aborts
\* under pi_lua_dofile, line 184 calls Error() under pi_lua_protected_call.
ScriptOtherStatus ==
    /\ host = "running" /\ stack # <<>> /\ Top.fn = "script"
    /\ lastScript' = [path |-> Top.path, ctx |-> Top.ctx,
                      outcome |-> "ERRGCMM"]
    /\ IF Top.ctx = "pcall"
       THEN Error("pi_lua_protected_call", "ERRGCMM")
       ELSE host' = "crashed" /\ UNCHANGED fatalMsg
    /\ UNCHANGED <<diag, CurrentDirectory, stack, lastOp, malformed, execLog,
                   treeDone, loadCalls, lastLoad>>
    /\ UNCHANGED <<roVars, hashVars, baseVars>>

\* Dispatch without the suffix test of line 286.
DispatchNoSuffixTest(path) ==
    CASE Lookup(path) = "dir" -> "tree"
      [] Lookup(path) = "file" -> "script"
      [] Lookup(path) = "none" -> "path that doesn't exist"
      [] OTHER -> "path that doesn't refer to a valid file"

\* The branch pi_load_lua takes for a path, lines 284-294: "tree" and
\* "script" for the two loads, otherwise the error raised.
Dispatch(path) ==
    CASE Lookup(path) = "dir" -> "tree"
      [] Lookup(path) = "file" /\ HasLuaSuffix(path) -> "script"
      [] Lookup(path) = "file" -> "file without a .lua extension"
      [] Lookup(path) = "none" -> "path that doesn't exist"
      [] OTHER -> "path that doesn't refer to a valid file"

\* A script may call load_lua while fewer than MaxNest calls of it are
\* running and fewer than MaxCalls were made.
MayCallLoadLua ==
    /\ host = "running" /\ stack # <<>> /\ Top.fn = "script"
    /\ Nesting < MaxNest
    /\ loadCalls < MaxCalls

\* What is recorded of a pi_load_lua call when it is made: the path and its
\* kind, the branch taken, the value of CurrentDirectory before it, how many
\* pi_load_lua calls are running, and how many bodies it has started.
LoadCalled(path, dispatched) ==
    [path |-> path, kind |-> Lookup(path), result |-> "called",
     outer |-> CurrentDirectory, after |-> NIL, nesting |-> Nesting + 1,
     dispatched |-> dispatched, ran |-> Len(execLog') - Len(execLog)]

\* A script calls load_lua(path) on a directory: lines 277-285.
LoadLuaTree(path) ==
    /\ MayCallLoadLua
    /\ Dispatch(path) = "tree"
    /\ stack' = Append(Append(stack,
                    LoadLuaFrame(path, OptString(CurrentDirectory, ""),
                                 CurrentDirectory)),
                    RecursiveFrame(path, loadCalls + 2, TRUE))
    /\ loadCalls' = loadCalls + 1
    /\ UNCHANGED <<host, fatalMsg, CurrentDirectory, malformed, diag, execLog,
                   treeDone, lastScript, lastOp>>
    /\ lastLoad' = LoadCalled(path, "tree")
    /\ UNCHANGED <<roVars, hashVars, baseVars>>

\* A script calls load_lua(path) on a file with the suffix: lines 277-287,
\* then pi_lua_dofile by path, lines 228-239.
LoadLuaScript(path) ==
    /\ MayCallLoadLua
    /\ Dispatch(path) = "script"
    /\ CurrentDirectory' = Val(DirOrDot(GetDir(path)))
    /\ StartBody(Append(stack,
                    LoadLuaFrame(path, OptString(CurrentDirectory, ""),
                                 CurrentDirectory)),
                 path, 0, "path", execLog)
    /\ loadCalls' = loadCalls + 1
    /\ lastLoad' = LoadCalled(path, "script")
    /\ UNCHANGED <<malformed, diag, treeDone, lastOp>>
    /\ UNCHANGED <<roVars, hashVars, baseVars>>

\* A script calls load_lua(path) on anything else: luaL_error, lines
\* 288-294. Called through pcall the script goes on; called directly the
\* error is the script's own runtime error.
LoadLuaRefused(path, caught) ==
    /\ MayCallLoadLua
    /\ Dispatch(path) \notin {"tree", "script"}
    /\ loadCalls' = loadCalls + 1
    /\ UNCHANGED <<malformed, execLog, treeDone>>
    /\ lastLoad' = [LoadCalled(path, "none") EXCEPT !.result = Dispatch(path)]
    /\ IF caught
       THEN UNCHANGED <<host, fatalMsg, diag, CurrentDirectory, stack, lastOp,
                        lastScript>>
       ELSE /\ lastScript' = [path |-> Top.path, ctx |-> Top.ctx,
                              outcome |-> "ERRRUN"]
            /\ OnRuntimeError(Top)
    /\ UNCHANGED <<roVars, hashVars, baseVars>>

\* The load pi_load_lua dispatched has returned: lines 296-302.
LoadLuaReturn ==
    /\ host = "running" /\ stack # <<>> /\ Top.fn = "load_lua"
    /\ CurrentDirectory' = Restored(Top.currentDir)
    /\ stack' = Pop
    /\ lastLoad' = [path |-> Top.path, kind |-> Lookup(Top.path),
                    result |-> "returned", outer |-> Top.outer,
                    after |-> CurrentDirectory', nesting |-> Nesting,
                    dispatched |-> Dispatch(Top.path),
                    ran |-> Len(execLog) - Top.logAt]
    /\ UNCHANGED <<host, fatalMsg, malformed, diag, execLog, treeDone,
                   loadCalls, lastScript, lastOp>>
    /\ UNCHANGED <<roVars, hashVars, baseVars>>

LoadInit ==
    /\ host = "running"
    /\ CurrentDirectory = NIL
    /\ stack = <<>>
    /\ malformed \in SUBSET ScriptFiles
    /\ diag = {}
    /\ fatalMsg = NIL
    /\ execLog = <<>>
    /\ treeDone = {}
    /\ loadCalls = 0
    /\ lastScript = NoScript
    /\ lastLoad = NoLoad
    /\ lastOp = [op |-> "none", arg |-> "", returned |-> FALSE]

LoadNext ==
    \/ \E d \in Paths : HostLoadTree(d)
    \/ TreeEnterDir
    \/ TreeRunFile
    \/ TreeSkipFile
    \/ TreeReturn
    \/ \E p \in Paths : HostLoadScript(p)
    \/ \E p \in Paths, g \in {"sub"} : HostLoadScriptUnreadable(p, g)
    \/ HostProtectedCall
    \/ ScriptReturn
    \/ ScriptRaise
    \/ \E st \in {"ERRMEM", "ERRERR"} : ScriptFault(st)
    \/ ScriptOtherStatus
    \/ \E p \in Paths : LoadLuaTree(p)
    \/ \E p \in Paths : LoadLuaScript(p)
    \/ \E p \in Paths, caught \in BOOLEAN : LoadLuaRefused(p, caught)
    \/ LoadLuaReturn

(***************************************************************************)
(* The specifications: one per component, the other components at rest     *)
(***************************************************************************)
RoRest == tbl = [k \in Keys |-> NIL] /\ mt = NIL
              /\ roOut = RoRecord("none", 0, NIL, NIL)
HashRest == hashOf = [str |-> [s \in StrSeeds |-> << <<0, 0>>, <<0, 0>> >>],
                      num |-> [n \in NumSeeds |-> << <<0, 0>>, <<0, 0>> >>],
                      nan |-> << <<0, 0>>, <<0, 0>> >>]
              /\ hrOut = HrResult(<<>>, "none", NIL, NIL, NIL)
BaseRest == compat = {} /\ globals = [n \in GlobalNames |-> NIL]
              /\ mathlib = [n \in MathNames |-> NIL] /\ basePc = 1
              /\ probe = [scope |-> "none", name |-> "", value |-> NIL]
LoadRest == LoadInit /\ malformed = {}

\* The loader and the protected call.
Init == RoRest /\ HashRest /\ BaseRest /\ LoadInit
Next == LoadNext
Spec == Init /\ [][Next]_vars

\* The read-only table.
InitRO == RoInit /\ HashRest /\ BaseRest /\ LoadRest
NextRO == RoNext
SpecRO == InitRO /\ [][NextRO]_vars

\* math.hash_random.
InitHash == RoRest /\ HashInit /\ BaseRest /\ LoadRest
NextHash == HashNext
SpecHash == InitHash /\ [][NextHash]_vars

\* The restricted standard library.
InitBase == RoRest /\ HashRest /\ BaseInit /\ LoadRest
NextBase == BaseNext
SpecBase == InitBase /\ [][NextBase]_vars

(***************************************************************************)
(* Properties                                                              *)
(***************************************************************************)
\* A path ends in the four characters ".lua".
EndsInLua(p) == Len(p) >= 4 /\ SubSeq(p, Len(p) - 3, Len(p)) = ".lua"

\* How many times the pi_lua_dofile_recursive call `tree` has run file f.
Runs(tree, f) ==
    Cardinality({i \in DOMAIN execLog :
                    execLog[i].tree = tree /\ execLog[i].path = f})

AllFiles == {p \in DOMAIN FileKind : FileKind[p] = "file"}

\* C1: every script assignment to a table that carries pi_lua_table_ro's
\* metatable, whatever the key, raises the read-only error and leaves the
\* table as it was.
C1_EveryWriteRaises ==
    (roOut.op = "assign" /\ roOut.ro)
        => (roOut.raised = Val("Attempt to modify read-only table")
            /\ tbl = roOut.pre)

\* C2: once pi_lua_open_standard_base has completed, the library tables in
\* the globals are exactly the seven of the allowlist; dofile, loadfile,
\* require, package, io and os are absent; math has neither random nor
\* randomseed, math.deg2rad is math.rad, and math.hash_random is
\* l_hash_random.
C2_SandboxContents ==
    BaseDone =>
        /\ {n \in LibraryNames : globals[n] # NIL}
              = {"_G", "coroutine", "table", "string", "bit32", "math", "debug"}
        /\ \A n \in {"dofile", "loadfile", "require", "package", "io", "os"} :
              globals[n] = NIL
        /\ mathlib["random"] = NIL
        /\ mathlib["randomseed"] = NIL
        /\ mathlib["rad"] # NIL
        /\ mathlib["deg2rad"] = mathlib["rad"]
        /\ mathlib["hash_random"] = Val("l_hash_random")

\* The environment is built, on a runtime with every compatibility entry, and
\* a script has looked up math.deg2rad.
C2_Witness ==
    /\ BaseDone
    /\ compat = CompatOptions
    /\ probe.scope = "math" /\ probe.name = "deg2rad" /\ probe.value # NIL

C4_FailingFileKeepsTreeLoadGoing ==
    (lastScript.ctx = "tree" /\ lastScript.outcome \in {"syntax", "ERRRUN"})
        => host = "running"

\* C5: when the body run by pi_lua_dofile by path raises a runtime error,
\* the call reports a RuntimeFault diagnostic for the file, the host keeps
\* running, and CurrentDirectory is not the file's directory.
C5_RuntimeFailureReportedAndCleared ==
    (lastScript.ctx = "path" /\ lastScript.outcome = "ERRRUN")
        => /\ host = "running"
           /\ <<"RuntimeFault", lastScript.path>> \in diag
           /\ CurrentDirectory # Val(DirOrDot(GetDir(lastScript.path)))

\* C6: once a pi_lua_dofile_recursive call of the host has returned,
\* CurrentDirectory is nil.
C6_TreeLoadClearsContext ==
    (lastOp.op = "load_tree" /\ lastOp.returned) => CurrentDirectory = NIL

C8_TreeRunsEveryLuaFileOnce ==
    \A t \in treeDone : \A f \in AllFiles :
        Runs(t.tree, f) =
            IF f \in FilesUnder(t.dir) /\ EndsInLua(f) THEN 1 ELSE 0

\* C9: pi_load_lua on an existing file whose path does not end in ".lua"
\* raises the "file without a .lua extension" error and runs no body.
C9_NonScriptFileRefused ==
    (lastLoad.result # "none" /\ lastLoad.kind = "file"
            /\ ~EndsInLua(lastLoad.path))
        => /\ lastLoad.result = "file without a .lua extension"
           /\ lastLoad.dispatched = "none"
           /\ lastLoad.ran = 0

\* A script has called load_lua("notes.txt") through pcall and goes on.
C9_Witness ==
    /\ lastLoad.path = "notes.txt"
    /\ lastLoad.result = "file without a .lua extension"
    /\ host = "running"
    /\ stack # <<>> /\ Top.fn = "script"

\* C10, as stated: math.hash_random() with no argument returns the number
\* made of the two fixed constants: (0xBF42B131 >> 5) * 2^26 +
\* (0x2A40F7F2 >> 6), over 2^53.
C10_NoArgumentReturnsConstant ==
    (hrOut.kind # "none" /\ Len(hrOut.args) = 0)
        => (hrOut.kind = "number" /\ hrOut.frac = Val(<<100275593, 11076575>>))

\* C10, amended: math.hash_random() with no argument raises luaL_checkany's
\* argument error; math.hash_random(nil), with the one argument nil, returns
\* the number made of the two fixed constants, whatever the hash function.
C10_NilArgumentReturnsConstant ==
    /\ (hrOut.kind # "none" /\ Len(hrOut.args) = 0)
          => (hrOut.kind = "error"
              /\ hrOut.err = Val("bad argument #1 (value expected)"))
    /\ (Len(hrOut.args) = 1 /\ hrOut.args[1].t = "nil")
          => (hrOut.kind = "number"
              /\ hrOut.frac = Val(<<100275593, 11076575>>))

\* math.hash_random(nil) has been called.
C10_Witness ==
    /\ Len(hrOut.args) = 1 /\ hrOut.args[1].t = "nil"
    /\ hrOut.kind = "number"

====
